---- MODULE Spec2Model ----
(***************************************************************************)
(* A model of the 2048 decision engine of src/game.py: the board           *)
(* transforms right / left / down, the scorer, the pivot check, the        *)
(* depth-3 lookahead of next_move and the orchestrator next_board.         *)
(*                                                                         *)
(* A board is a sequence of rows, a row a sequence of cells.  Python's     *)
(* indices start at 0 and TLA+'s at 1: board[r][c] of the code is          *)
(* b[r+1][c+1] here.  A cell is the integer the code stores: 1 for an      *)
(* empty cell, 2^k for a tile.  A move label is the string of the code;    *)
(* Python's None is the string "none".                                     *)
(***************************************************************************)
EXTENDS Integers, Sequences, FiniteSets

\* game.py:6-7
rows == 4
cols == 4

\* The largest tile exponent of the boards drawn for the transform
\* specification (cells range over 1, 2, ..., 2^MaxExp).
MaxExp == 2

RECURSIVE Pow(_, _)
\* pow(b, e) for a natural exponent e (game.py:140, 143)
Pow(b, e) == IF e = 0 THEN 1 ELSE b * Pow(b, e - 1)

RECURSIVE Log2(_)
\* math.log2(v) for v a power of two (game.py:140, 143)
Log2(v) == IF v <= 1 THEN 0 ELSE 1 + Log2(v \div 2)

RECURSIVE Ones(_)
\* [1]*n
Ones(n) == IF n <= 0 THEN <<>> ELSE <<1>> \o Ones(n - 1)

\* [x for x in row if x != 1]  (game.py:21, 42)
NonEmptyCells(row) == SelectSeq(row, LAMBDA x : x # 1)

(***************************************************************************)
(* right (game.py:16-34)                                                   *)
(***************************************************************************)
\* game.py:21-23: the tiles of the row packed against the right edge
CompactRight(row) ==
    LET new_row == NonEmptyCells(row)
    IN  Ones(Len(row) - Len(new_row)) \o new_row

\* game.py:29-33 with a merged row that loses its left padding
RightMergeAtShort(row, i) ==
    LET d == [row EXCEPT ![i + 1] = row[i + 1] * 2]
    IN  IF i = 1
        THEN [d EXCEPT ![1] = 1]
        ELSE SubSeq(d, 1, i - 1) \o SubSeq(d, i + 1, Len(d))

\* game.py:29-33: the merge of the cells i-1 and i (Python indices) of a row
RightMergeAt(row, i) ==
    LET d == [row EXCEPT ![i + 1] = row[i + 1] * 2]
    IN  IF i = 1
        THEN [d EXCEPT ![1] = 1]
        ELSE <<1>> \o SubSeq(d, 1, i - 1) \o SubSeq(d, i + 1, Len(d))

RECURSIVE RightMergeOnes(_, _, _)
\* game.py:27-33 without the test board_copy[idx][i] != 1 of game.py:28
RightMergeOnes(row, i, ncols) ==
    IF i < 1 THEN row
    ELSE IF row[i + 1] = row[i]
         THEN RightMergeOnes(RightMergeAt(row, i), i - 1, ncols)
         ELSE RightMergeOnes(row, i - 1, ncols)

RECURSIVE RightMerge(_, _, _)
\* game.py:27-33: for i in range(ncols-1, 0, -1), from Python index i on
RightMerge(row, i, ncols) ==
    IF i < 1 THEN row
    ELSE IF row[i + 1] = row[i] /\ row[i + 1] # 1
         THEN RightMerge(RightMergeAt(row, i), i - 1, ncols)
         ELSE RightMerge(row, i - 1, ncols)

RECURSIVE RightRows(_, _, _)
\* game.py:20-33: the rows of board_copy from row idx on, compacted and merged
RightRows(board, idx, ncols) ==
    IF idx > Len(board) THEN <<>>
    ELSE <<RightMerge(CompactRight(board[idx]), ncols - 1, ncols)>>
             \o RightRows(board, idx + 1, ncols)

\* game.py:16-34
right(board) == RightRows(board, 1, Len(board[1]))

(***************************************************************************)
(* left (game.py:37-54)                                                    *)
(***************************************************************************)
\* game.py:42-44 with the padding of game.py:23, before the tiles
CompactLeftPadFirst(row) ==
    LET new_row == NonEmptyCells(row)
    IN  Ones(Len(row) - Len(new_row)) \o new_row

\* game.py:42-44: the tiles of the row packed against the left edge
CompactLeft(row) ==
    LET new_row == NonEmptyCells(row)
    IN  new_row \o Ones(Len(row) - Len(new_row))

\* game.py:49-53 with the merged cell emptied where it is, the row not closed up
LeftMergeAtNoShift(row, i) == [row EXCEPT ![i + 1] = row[i + 1] * 2, ![i + 2] = 1]

\* game.py:49-53: the merge of the cells i and i+1 (Python indices) of a row
LeftMergeAt(row, i) ==
    LET d == [row EXCEPT ![i + 1] = row[i + 1] * 2]
    IN  IF i = Len(d) - 2
        THEN [d EXCEPT ![Len(d)] = 1]
        ELSE SubSeq(d, 1, i + 1) \o SubSeq(d, i + 3, Len(d)) \o <<1>>

RECURSIVE LeftMergeChain(_, _, _)
\* game.py:47-53 with the index not advanced after a merge, so that the
\* merged tile is compared again
LeftMergeChain(row, i, ncols) ==
    IF i > ncols - 2 THEN row
    ELSE IF row[i + 1] = row[i + 2] /\ row[i + 1] # 1
         THEN LeftMergeChain(LeftMergeAt(row, i), i, ncols)
         ELSE LeftMergeChain(row, i + 1, ncols)

RECURSIVE LeftMerge(_, _, _)
\* game.py:47-53: for i in range(ncols-1), from Python index i on
LeftMerge(row, i, ncols) ==
    IF i > ncols - 2 THEN row
    ELSE IF row[i + 1] = row[i + 2] /\ row[i + 1] # 1
         THEN LeftMerge(LeftMergeAt(row, i), i + 1, ncols)
         ELSE LeftMerge(row, i + 1, ncols)

RECURSIVE LeftRows(_, _, _)
\* game.py:41-53: the rows of board_copy from row idx on, compacted and merged
LeftRows(board, idx, ncols) ==
    IF idx > Len(board) THEN <<>>
    ELSE <<LeftMerge(CompactLeft(board[idx]), 0, ncols)>>
             \o LeftRows(board, idx + 1, ncols)

\* game.py:37-54
left(board) == LeftRows(board, 1, Len(board[1]))

(***************************************************************************)
(* down (game.py:61-115).  A column is the sequence of its cells from the  *)
(* top row to the bottom row; the code works on one column of down_board   *)
(* at a time and never reads another column.                               *)
(***************************************************************************)
RECURSIVE DownPush(_, _, _, _)
\* game.py:89-93 and 104-108: the while loop over rowc (Python indices);
\* yields the column written and the final rowd
DownPush(src, dst, rowc, rowd) ==
    IF rowc < 0 THEN <<dst, rowd>>
    ELSE IF src[rowc + 1] # 1
         THEN DownPush(src, [dst EXCEPT ![rowd + 1] = src[rowc + 1]], rowc - 1, rowd - 1)
         ELSE DownPush(src, dst, rowc - 1, rowd)

RECURSIVE DownPushInPlace(_, _, _)
\* game.py:104-108: the second push reads and writes the same column
DownPushInPlace(col, rowc, rowd) ==
    IF rowc < 0 THEN <<col, rowd>>
    ELSE IF col[rowc + 1] # 1
         THEN DownPushInPlace([col EXCEPT ![rowd + 1] = col[rowc + 1]], rowc - 1, rowd - 1)
         ELSE DownPushInPlace(col, rowc - 1, rowd)

\* game.py:98 without game.py:99: the upper cell of the pair is left as it is
DownMergeAtKeep(col, row) == [col EXCEPT ![row + 1] = col[row + 1] * 2]

\* game.py:98-99: the merge of the cells row-1 and row (Python indices) of a column
DownMergeAt(col, row) == [col EXCEPT ![row + 1] = col[row + 1] * 2, ![row] = 1]

RECURSIVE DownMerge(_, _)
\* game.py:96-99: for row in range(nrows-1, 0, -1), from Python index row on
DownMerge(col, row) ==
    IF row < 1 THEN col
    ELSE IF col[row + 1] = col[row] /\ col[row + 1] # 1
         THEN DownMerge(DownMergeAt(col, row), row - 1)
         ELSE DownMerge(col, row - 1)

\* game.py:111-113 left out: the cells above rowd keep what the push left
DownFillNone(col, rowd) == col

\* game.py:111-113: the cells above rowd are set to 1
DownFill(col, rowd) == Ones(rowd + 1) \o SubSeq(col, rowd + 2, Len(col))

\* game.py:86-113: one iteration of the loop over col
DownColumn(column) ==
    LET nrows  == Len(column)
        pushed == DownPush(column, Ones(nrows), nrows - 1, nrows - 1)[1]
        merged == DownMerge(pushed, nrows - 1)
        again  == DownPushInPlace(merged, nrows - 1, nrows - 1)
    IN  DownFill(again[1], again[2])

RECURSIVE Line(_, _, _)
\* the cells lines[1][r], lines[2][r], ... from index c on: column r of a
\* sequence of rows, or row r of a sequence of columns
Line(lines, r, c) ==
    IF c > Len(lines) THEN <<>> ELSE <<lines[c][r]>> \o Line(lines, r, c + 1)

RECURSIVE DownColumns(_, _)
\* game.py:86-113: the columns of down_board from column c on
DownColumns(board, c) ==
    IF c > Len(board[1]) THEN <<>>
    ELSE <<DownColumn(Line(board, c, 1))>> \o DownColumns(board, c + 1)

RECURSIVE RowsOf(_, _)
\* down_board read row by row, from row r on
RowsOf(columns, r) ==
    IF r > Len(columns[1]) THEN <<>>
    ELSE <<Line(columns, r, 1)>> \o RowsOf(columns, r + 1)

\* game.py:61-115
down(board) == RowsOf(DownColumns(board, 1), 1)

(***************************************************************************)
(* find_longest_path and score (game.py:117-144)                           *)
(***************************************************************************)
RECURSIVE Reverse(_)
\* list.reverse()
Reverse(s) == IF Len(s) = 0 THEN <<>> ELSE Reverse(Tail(s)) \o <<Head(s)>>

RECURSIVE FlattenFrom(_, _)
\* [x for row in board for x in row], from row r on (game.py:122, 151)
FlattenFrom(b, r) == IF r > Len(b) THEN <<>> ELSE b[r] \o FlattenFrom(b, r + 1)

Flatten(b) == FlattenFrom(b, 1)

RECURSIVE LongestWhile(_, _, _, _)
\* game.py:128-131: the while loop, ind a Python index
LongestWhile(board_list, ind, last, longest_seq) ==
    IF ind < Len(board_list) /\ board_list[ind + 1] <= last
    THEN LongestWhile(board_list, ind + 1, board_list[ind + 1],
                      Append(longest_seq, board_list[ind + 1]))
    ELSE longest_seq

\* game.py:117-132 without the two row reversals of game.py:119-120
find_longest_path_rowmajor(b) ==
    LET board_list == Reverse(Flatten(b))
    IN  LongestWhile(board_list, 0, board_list[1], <<>>)

\* game.py:117-132
find_longest_path(b) ==
    LET board_copy == [b EXCEPT ![1] = Reverse(b[1]), ![3] = Reverse(b[3])]
        board_list == Reverse(Flatten(board_copy))
    IN  LongestWhile(board_list, 0, board_list[1], <<>>)

RECURSIVE SumPow(_, _, _)
\* sum of pow(base, math.log2(x)) over the cells of seq from index i on
SumPow(base, seq, i) ==
    IF i > Len(seq) THEN 0 ELSE Pow(base, Log2(seq[i])) + SumPow(base, seq, i + 1)

\* game.py:135-144 with the bases 4 and 3 exchanged
score_swapped(b) == SumPow(3, find_longest_path(b), 1) + SumPow(4, Flatten(b), 1)

\* game.py:135-144.  The code adds floats; every term and every partial sum
\* is an integer below 2^53, which a float holds exactly.
score(b) == SumPow(4, find_longest_path(b), 1) + SumPow(3, Flatten(b), 1)

(***************************************************************************)
(* check_pivots (game.py:147-174)                                          *)
(***************************************************************************)
RECURSIVE InsertDesc(_, _, _)
\* the place of x in a list sorted in descending order, from index i on
InsertDesc(sorted, x, i) ==
    IF i > Len(sorted) THEN Append(sorted, x)
    ELSE IF sorted[i] < x
         THEN SubSeq(sorted, 1, i - 1) \o <<x>> \o SubSeq(sorted, i, Len(sorted))
         ELSE InsertDesc(sorted, x, i + 1)

RECURSIVE SortDescFrom(_, _, _)
SortDescFrom(seq, i, sorted) ==
    IF i > Len(seq) THEN sorted
    ELSE SortDescFrom(seq, i + 1, InsertDesc(sorted, seq[i], 1))

\* board_list.sort(reverse=True)  (game.py:152)
SortDesc(seq) == SortDescFrom(seq, 1, <<>>)

\* game.py:156: the value below which the pivots are not enforced
PivotThreshold == 64

RECURSIVE ScanRightAny(_, _, _)
\* game.py:159-165 with every cell other than the expected value passed over
ScanRightAny(row, i, expected) ==
    IF i < 0 THEN "fall"
    ELSE IF row[i + 1] = expected THEN "right"
    ELSE ScanRightAny(row, i - 1, expected)

RECURSIVE ScanRight(_, _, _)
\* game.py:159-165: for i in range(cols-1, -1, -1); "fall" when the loop ends
ScanRight(row, i, expected) ==
    IF i < 0 THEN "fall"
    ELSE IF row[i + 1] = 1 THEN ScanRight(row, i - 1, expected)
    ELSE IF row[i + 1] = expected THEN "right" ELSE "undo"

RECURSIVE ScanLeft(_, _, _)
\* game.py:167-173: for i in range(cols); "fall" when the loop ends
ScanLeft(row, i, expected) ==
    IF i > cols - 1 THEN "fall"
    ELSE IF row[i + 1] = 1 THEN ScanLeft(row, i + 1, expected)
    ELSE IF row[i + 1] = expected THEN "left" ELSE "undo"

RECURSIVE PivotRowsOtherEdge(_, _, _)
\* game.py:154-174 with the boundary cells of game.py:158 and 166 exchanged:
\* column 0 for the rows scanned to the right, the last column for the others
PivotRowsOtherEdge(b, board_list, row) ==
    IF row < 0 THEN "none"
    ELSE
      LET bl_idx == (rows - row - 1) * cols
          expected == board_list[bl_idx + 1]
          even == /\ (rows - row - 1) % 2 = 0
                  /\ expected # b[row + 1][1]
                  /\ (bl_idx = 0 \/ b[row + 2][1] = board_list[bl_idx])
          odd  == /\ (rows - row - 1) % 2 = 1
                  /\ expected # b[row + 1][cols]
                  /\ b[row + 2][cols] = board_list[bl_idx]
          r1 == IF even THEN ScanRight(b[row + 1], cols - 1, expected) ELSE "fall"
          r2 == IF odd THEN ScanLeft(b[row + 1], 0, expected) ELSE "fall"
      IN  IF expected <= PivotThreshold THEN "none"
          ELSE IF r1 # "fall" THEN r1
          ELSE IF r2 # "fall" THEN r2
          ELSE PivotRowsOtherEdge(b, board_list, row - 1)

RECURSIVE PivotRowsStrict(_, _, _)
\* game.py:154-174 with the test of game.py:156 written < 64
PivotRowsStrict(b, board_list, row) ==
    IF row < 0 THEN "none"
    ELSE
      LET bl_idx == (rows - row - 1) * cols
          expected == board_list[bl_idx + 1]
          even == /\ (rows - row - 1) % 2 = 0
                  /\ expected # b[row + 1][cols]
                  /\ (bl_idx = 0 \/ b[row + 2][cols] = board_list[bl_idx])
          odd  == /\ (rows - row - 1) % 2 = 1
                  /\ expected # b[row + 1][1]
                  /\ b[row + 2][1] = board_list[bl_idx]
          r1 == IF even THEN ScanRight(b[row + 1], cols - 1, expected) ELSE "fall"
          r2 == IF odd THEN ScanLeft(b[row + 1], 0, expected) ELSE "fall"
      IN  IF expected < PivotThreshold THEN "none"
          ELSE IF r1 # "fall" THEN r1
          ELSE IF r2 # "fall" THEN r2
          ELSE PivotRowsStrict(b, board_list, row - 1)

RECURSIVE PivotRows(_, _, _)
\* game.py:154-174: for row in range(rows-1, -1, -1), from Python index row on
PivotRows(b, board_list, row) ==
    IF row < 0 THEN "none"
    ELSE
      LET bl_idx == (rows - row - 1) * cols
          expected == board_list[bl_idx + 1]
          even == /\ (rows - row - 1) % 2 = 0
                  /\ expected # b[row + 1][cols]
                  /\ (bl_idx = 0 \/ b[row + 2][cols] = board_list[bl_idx])
          odd  == /\ (rows - row - 1) % 2 = 1
                  /\ expected # b[row + 1][1]
                  /\ b[row + 2][1] = board_list[bl_idx]
          r1 == IF even THEN ScanRight(b[row + 1], cols - 1, expected) ELSE "fall"
          r2 == IF odd THEN ScanLeft(b[row + 1], 0, expected) ELSE "fall"
      IN  IF expected <= PivotThreshold THEN "none"
          ELSE IF r1 # "fall" THEN r1
          ELSE IF r2 # "fall" THEN r2
          ELSE PivotRows(b, board_list, row - 1)

\* game.py:147-174
check_pivots(b) == PivotRows(b, SortDesc(Flatten(b)), rows - 1)

(***************************************************************************)
(* next_move (game.py:177-227)                                             *)
(***************************************************************************)
\* game.py:189
lookahead == 3

\* game.py:201-208: the label of a child made by the move own
ChildLabelOwn(move, own) == own

\* game.py:201-208: the label of a child made by the move own
ChildLabel(move, own) == IF move # "none" THEN move ELSE own

\* the children of one (b, move) pair, those equal to b left out
ChildrenPruned(pair) ==
    SelectSeq(<< <<down(pair[1]),  ChildLabel(pair[2], "down")>>,
                 <<left(pair[1]),  ChildLabel(pair[2], "left")>>,
                 <<right(pair[1]), ChildLabel(pair[2], "right")>> >>,
              LAMBDA child : child[1] # pair[1])

\* game.py:195-208: the three children of one (b, move) pair
Children(pair) ==
    << <<down(pair[1]),  ChildLabel(pair[2], "down")>>,
       <<left(pair[1]),  ChildLabel(pair[2], "left")>>,
       <<right(pair[1]), ChildLabel(pair[2], "right")>> >>

RECURSIVE ExpandFrom(_, _)
\* game.py:193-208: next_boards, for the pairs of current_boards from index i on
ExpandFrom(current_boards, i) ==
    IF i > Len(current_boards) THEN <<>>
    ELSE Children(current_boards[i]) \o ExpandFrom(current_boards, i + 1)

RECURSIVE ExpandLevels(_, _)
\* game.py:191-209: for _ in range(lookahead)
ExpandLevels(possible_boards, n) ==
    IF n = 0 THEN possible_boards
    ELSE ExpandLevels(ExpandFrom(possible_boards, 1), n - 1)

\* game.py:188-209: possible_boards after the expansion
Leaves(b) == ExpandLevels(<< <<b, "none">> >>, lookahead)

RECURSIVE ScoredFrom(_, _)
\* game.py:212-222: scored_boards, for the leaves from index i on
ScoredFrom(possible_boards, i) ==
    IF i > Len(possible_boards) THEN <<>>
    ELSE << <<score(possible_boards[i][1]), possible_boards[i][2]>> >>
             \o ScoredFrom(possible_boards, i + 1)

\* game.py:211-222
ScoredBoards(possible_boards) == ScoredFrom(possible_boards, 1)

\* a sort that orders by ascending score
GoesBeforeAsc(x, y) == x[1] < y[1]

\* a sort that puts the later of two equal scores first
GoesBeforeUnstable(x, y) == x[1] >= y[1]

\* game.py:223: key=lambda x: x[0], reverse=True: x, met later, goes before y
\* only when its score is strictly higher (the sort is stable)
GoesBefore(x, y) == x[1] > y[1]

RECURSIVE InsertByScore(_, _, _)
InsertByScore(sorted, x, i) ==
    IF i > Len(sorted) THEN Append(sorted, x)
    ELSE IF GoesBefore(x, sorted[i])
         THEN SubSeq(sorted, 1, i - 1) \o <<x>> \o SubSeq(sorted, i, Len(sorted))
         ELSE InsertByScore(sorted, x, i + 1)

RECURSIVE SortByScoreFrom(_, _, _)
SortByScoreFrom(seq, i, sorted) ==
    IF i > Len(seq) THEN sorted
    ELSE SortByScoreFrom(seq, i + 1, InsertByScore(sorted, seq[i], 1))

\* scored_boards.sort(key=lambda x: x[0], reverse=True)  (game.py:223)
SortByScore(seq) == SortByScoreFrom(seq, 1, <<>>)

\* game.py:188-227: the search of next_move
Search(b) ==
    LET scored_boards == SortByScore(ScoredBoards(Leaves(b)))
    IN  IF Len(scored_boards) = 0 THEN "undo" ELSE scored_boards[1][2]

\* next_move with the pivot check consulted only for undo
next_move_undo_only(b) ==
    LET priority_move == check_pivots(b)
    IN  IF priority_move = "undo" THEN priority_move ELSE Search(b)

\* game.py:177-227
next_move(b) ==
    LET priority_move == check_pivots(b)
    IN  IF priority_move # "none" THEN priority_move ELSE Search(b)

(***************************************************************************)
(* press_key and next_board (game.py:232-284)                              *)
(***************************************************************************)
\* game.py:239-249: the keys pressed for a move (none for an unknown label)
press_key(m) ==
    CASE m = "up"    -> <<"up">>
      [] m = "down"  -> <<"down">>
      [] m = "left"  -> <<"left">>
      [] m = "right" -> <<"right">>
      [] m = "undo"  -> <<"u">>
      [] OTHER       -> <<>>

\* an undo that hands the board back as it was
ResetBoardKeep(b) == b

\* game.py:260: [[1 for _ in range(cols)] for _ in range(rows)]
ResetBoard(b) == <<Ones(cols), Ones(cols), Ones(cols), Ones(cols)>>

\* game.py:256, 261-266: upcoming_board after the three ifs
FirstBoard(m, b) ==
    CASE m = "down"  -> down(b)
      [] m = "left"  -> left(b)
      [] m = "right" -> right(b)
      [] OTHER       -> <<>>

\* a rotation down -> right -> left -> down
NextInRotationBack(m) ==
    IF m = "down" THEN "right" ELSE IF m = "right" THEN "left" ELSE "down"

\* game.py:270-278: the move tried after m
NextInRotation(m) ==
    IF m = "down" THEN "left" ELSE IF m = "left" THEN "right" ELSE "down"

(***************************************************************************)
(* State                                                                   *)
(***************************************************************************)
VARIABLES
    board,          \* the caller's board: the argument of a call, then its result
    prev,           \* the board the last operation was called on
    op,             \* the last operation called ("init" before the first)
    pc,             \* "idle" between calls, "loop" at the test of game.py:269
    chosen,         \* what next_move returned to next_board (game.py:255)
    move,           \* next_board's local move
    upcoming_board, \* next_board's local upcoming_board
    tried,          \* the directions whose transform this call has applied
    keys,           \* the keys the last call has pressed, in order
    raised,         \* the exception the last call ended with, or "none"
    iter,           \* the iterations the driver loop of main.py:246 has begun
    heap,           \* the list objects of the interpreter, by identity
    arg,            \* the identity of the list passed to the last call
    ret,            \* the identity of the list it returned, 0 when none
    refs,           \* main's valid_cell_indices at its last call (main.py:194)
    matched,        \* the match result of each reference image, in list order
    returned_ids,   \* the list find_similar_images_for_references returned
    env             \* the inputs of the last call of main (captures, folder, flags)

vars == <<board, prev, op, pc, chosen, move, upcoming_board, tried, keys,
          raised, iter, heap, arg, ret, refs, matched, returned_ids, env>>

\* the variables of the perception step
perception == <<refs, matched, returned_ids, env>>

\* the variables the calls on board values leave alone
objects == <<heap, arg, ret>>

Dirs == {"down", "left", "right"}

\* the cells 1, 2, 4, ..., 2^MaxExp
Cells == {Pow(2, e) : e \in 0..MaxExp}

Rows4 == [1..cols -> Cells]

Transpose(b) == [r \in 1..cols |-> [c \in 1..rows |-> b[c][r]]]

\* The boards the transforms are tried on: every line over Cells beside every
\* line over {1, 2}, alternated, as rows and as columns.
TransformBoards ==
    LET Alt == {<<r1, r2, r2, r1>> : r1 \in Rows4, r2 \in [1..cols -> {1, 2}]}
    IN  Alt \cup {Transpose(b) : b \in Alt}

NoCall ==
    /\ chosen = "none"
    /\ move = "none"
    /\ upcoming_board = <<>>
    /\ tried = {}
    /\ keys = <<>>
    /\ raised = "none"
    /\ iter = 0
    /\ refs = <<>>
    /\ matched = <<>>
    /\ returned_ids = <<>>
    /\ env = <<>>

NoObjects == heap = <<>> /\ arg = 0 /\ ret = 0

InitT ==
    /\ board \in TransformBoards
    /\ prev = board
    /\ op = "init"
    /\ pc = "idle"
    /\ NoCall
    /\ NoObjects

\* a direct call board = right(board)
CallRight ==
    /\ board' = right(board)
    /\ prev' = board
    /\ op' = "right"
    /\ UNCHANGED <<pc, chosen, move, upcoming_board, tried, keys, raised, iter>>
    /\ UNCHANGED objects
    /\ UNCHANGED perception

\* a direct call board = left(board)
CallLeft ==
    /\ board' = left(board)
    /\ prev' = board
    /\ op' = "left"
    /\ UNCHANGED <<pc, chosen, move, upcoming_board, tried, keys, raised, iter>>
    /\ UNCHANGED objects
    /\ UNCHANGED perception

\* a direct call board = down(board)
CallDown ==
    /\ board' = down(board)
    /\ prev' = board
    /\ op' = "down"
    /\ UNCHANGED <<pc, chosen, move, upcoming_board, tried, keys, raised, iter>>
    /\ UNCHANGED objects
    /\ UNCHANGED perception

NextT == CallRight \/ CallLeft \/ CallDown

TransformSpec == InitT /\ [][NextT]_vars

(***************************************************************************)
(* The boards next_board is called on                                      *)
(***************************************************************************)
Pos == (1..rows) \X (1..cols)

EmptyBoard == <<Ones(cols), Ones(cols), Ones(cols), Ones(cols)>>

Put(b, p, v) == [b EXCEPT ![p[1]][p[2]] = v]

Swap(b, p, q) == [b EXCEPT ![p[1]][p[2]] = b[q[1]][q[2]], ![q[1]][q[2]] = b[p[1]][p[2]]]

\* boards of an opening: at most two tiles, each a 2 or a 4
SparseBoards == {Put(Put(EmptyBoard, p, v), q, w) : p \in Pos, q \in Pos, v \in {1, 2, 4}, w \in {1, 2, 4}}

\* boards of a game under way; the fourth is the board of game.py:289-293
BaseBoards == {
    << <<128, 2, 4, 2>>, <<128, 128, 256, 128>>, <<512, 256, 256, 128>>, <<1024, 2048, 4096, 8192>> >>,
    << <<2, 4, 2, 4>>, <<4, 8, 16, 32>>, <<512, 256, 128, 64>>, <<1024, 2048, 4096, 8192>> >>,
    << <<1, 1, 2, 1>>, <<2, 4, 2, 1>>, <<4, 16, 8, 2>>, <<32, 64, 128, 256>> >>,
    << <<2, 2, 2, 1>>, <<4, 16, 2, 2>>, <<8, 64, 32, 8>>, <<32, 128, 512, 16384>> >>,
    << <<1, 1, 1, 1>>, <<1, 1, 1, 2>>, <<2, 4, 1, 1>>, <<1, 128, 1, 1>> >>,
    << <<1, 1, 1, 1>>, <<1, 1, 2, 1>>, <<1, 128, 1, 2>>, <<128, 256, 512, 1024>> >>,
    << <<1, 1, 1, 1>>, <<1, 2, 1, 1>>, <<2, 4, 8, 1>>, <<16, 32, 1, 64>> >> }

\* a base board, with two of its cells exchanged or one of them emptied
PerturbedBoards ==
    {Swap(b, p, q) : b \in BaseBoards, p \in Pos, q \in Pos}
        \cup {Put(b, p, 1) : b \in BaseBoards, p \in Pos}

\* the board whose cells along the traversal of find_longest_path (bottom row
\* right to left, then upward in alternating direction) are n tiles from
\* 16384 downward, each value held by one tile or by two, and 1 after them
ArrangedBoard(n, twice) ==
    LET at(r, c) == LET k == rows - r
                    IN  k * cols + (IF k % 2 = 0 THEN cols - c ELSE c - 1)
    IN  [r \in 1..rows |-> [c \in 1..cols |->
            IF at(r, c) < n
            THEN Pow(2, 14 - (IF twice THEN at(r, c) \div 2 ELSE at(r, c)))
            ELSE 1]]

\* boards arranged as the scorer rewards them
ArrangedBoards == {ArrangedBoard(n, twice) : n \in 1..14, twice \in BOOLEAN}

GameBoards == SparseBoards \cup PerturbedBoards \cup ArrangedBoards

Init ==
    /\ board \in GameBoards
    /\ prev = board
    /\ op = "init"
    /\ pc = "idle"
    /\ NoCall
    /\ NoObjects

\* game.py:255-266: the call, next_move, and either the undo return or the
\* first transform
NextBoardEnter ==
    /\ pc = "idle"
    /\ \E m \in {next_move(board)} :
           /\ chosen' = m
           /\ move' = m
           /\ prev' = board
           /\ op' = "next_board"
           /\ IF m = "undo"
              THEN /\ keys' = press_key(m)
                   /\ board' = ResetBoard(board)
                   /\ upcoming_board' = <<>>
                   /\ tried' = {}
                   /\ pc' = "idle"
              ELSE /\ keys' = <<>>
                   /\ board' = board
                   /\ upcoming_board' = FirstBoard(m, board)
                   /\ tried' = {m} \cap Dirs
                   /\ pc' = "loop"
    /\ UNCHANGED <<raised, iter>>
    /\ UNCHANGED objects
    /\ UNCHANGED perception

\* game.py:269-278: one iteration of the while loop
LoopRotate ==
    /\ pc = "loop"
    /\ board = upcoming_board
    /\ move' = NextInRotation(move)
    /\ upcoming_board' = FirstBoard(NextInRotation(move), board)
    /\ tried' = tried \cup {NextInRotation(move)}
    /\ UNCHANGED <<board, prev, op, pc, chosen, keys, raised, iter>>
    /\ UNCHANGED objects
    /\ UNCHANGED perception

\* game.py:269, 282-284 with the key of the move next_move chose pressed,
\* not the key of the move the rotation ended on
LoopExitChosen ==
    /\ pc = "loop"
    /\ board # upcoming_board
    /\ keys' = keys \o press_key(chosen)
    /\ board' = upcoming_board
    /\ pc' = "idle"
    /\ UNCHANGED <<prev, op, chosen, move, upcoming_board, tried, raised, iter>>
    /\ UNCHANGED objects
    /\ UNCHANGED perception

\* game.py:269, 282-284: the loop ends, the key is pressed, the board returned
LoopExit ==
    /\ pc = "loop"
    /\ board # upcoming_board
    /\ keys' = keys \o press_key(move)
    /\ board' = upcoming_board
    /\ pc' = "idle"
    /\ UNCHANGED <<prev, op, chosen, move, upcoming_board, tried, raised, iter>>
    /\ UNCHANGED objects
    /\ UNCHANGED perception

Next == NextBoardEnter \/ LoopRotate \/ LoopExit

Spec == Init /\ [][Next]_vars

\* a call of next_board has returned
Returned == op = "next_board" /\ pc = "idle"

(***************************************************************************)
(* Properties                                                              *)
(***************************************************************************)
\* the transform of a direction
Apply(d, b) ==
    CASE d = "down"  -> down(b)
      [] d = "left"  -> left(b)
      [] d = "right" -> right(b)

\* the state at the first test of game.py:269, right after next_move returned
AtFirstTest == op = "next_board" /\ pc = "loop" /\ move = chosen /\ tried \subseteq {move}

\* next_move has just returned to next_board: either the undo return or the
\* first test of the loop
JustChosen == AtFirstTest \/ (Returned /\ chosen = "undo")

\* no direction changes b
Stuck(b) == \A d \in Dirs : Apply(d, b) = b

RECURSIVE IsPow2(_)
IsPow2(v) == v = 1 \/ (v > 1 /\ v % 2 = 0 /\ IsPow2(v \div 2))

\* 4x4, every cell the sentinel 1 or a power of two >= 2
WellFormed(b) ==
    /\ DOMAIN b = 1..rows
    /\ \A r \in 1..rows :
          /\ DOMAIN b[r] = 1..cols
          /\ \A c \in 1..cols : b[r][c] \in Nat /\ IsPow2(b[r][c])

\* C1: next_board terminates: the rotation of game.py:269-278 tries each
\* direction at most once, so an iteration of the loop never applies a
\* direction this call has applied already.
C1_EachDirectionOnce ==
    [][(pc = "loop" /\ pc' = "loop") => move' \notin tried]_vars

\* the direction the rotation down -> left -> right -> down tries after d
After(d) == CASE d = "down" -> "left" [] d = "left" -> "right" [] d = "right" -> "down"

\* the first transform that changes b, starting at d and following the rotation
RotationResult(b, d) ==
    IF Apply(d, b) # b THEN Apply(d, b)
    ELSE IF Apply(After(d), b) # b THEN Apply(After(d), b)
    ELSE Apply(After(After(d)), b)

\* C2: when next_move returned a direction d, the board next_board returns is
\* d(board) if that differs from board, else the transform of the first
\* direction after d in the rotation down -> left -> right -> down that
\* changes the board; the returned board differs from the input.
C2_RotationResult ==
    (Returned /\ chosen \in Dirs) =>
        /\ board = RotationResult(prev, chosen)
        /\ board # prev
        /\ (Apply(chosen, prev) # prev => board = Apply(chosen, prev))

\* C2 witness: a call returned after next_move chose a no-op direction and
\* the rotation substituted another one.
C2_Witness ==
    /\ Returned /\ chosen \in Dirs
    /\ Apply(chosen, prev) = prev
    /\ board # prev
    /\ move # chosen

\* C3: when next_move returned undo, next_board presses u, applies no
\* transform and returns the 4x4 board of sentinels.
C3_UndoResets ==
    (Returned /\ chosen = "undo") =>
        /\ DOMAIN board = 1..rows
        /\ \A r \in 1..rows : DOMAIN board[r] = 1..cols /\ \A c \in 1..cols : board[r][c] = 1
        /\ keys = <<"u">>
        /\ tried = {}
        /\ upcoming_board = <<>>

\* C3 witness: a call on a board with tiles returned through undo.
C3_Witness ==
    /\ Returned /\ chosen = "undo"
    /\ \E r \in 1..rows, c \in 1..cols : prev[r][c] > PivotThreshold

\* C4: whenever check_pivots returns a move, next_move returns that move.
C4_PivotShortCircuit ==
    (JustChosen /\ check_pivots(prev) # "none") => chosen = check_pivots(prev)

\* C4 witness: check_pivots returned left or right on a board where the best
\* leaf of the search carries another label.
C4_Witness ==
    /\ JustChosen
    /\ check_pivots(prev) \in {"left", "right"}
    /\ Search(prev) # check_pivots(prev)
    /\ chosen = check_pivots(prev)

\* C5: when check_pivots returns none, next_move returns the label of a leaf
\* whose score no leaf exceeds.
C5_MaxLeaf ==
    (JustChosen /\ check_pivots(prev) = "none") =>
        LET scored == ScoredBoards(Leaves(prev))
        IN  \E i \in 1..Len(scored) :
               /\ scored[i][2] = chosen
               /\ \A j \in 1..Len(scored) : scored[j][1] <= scored[i][1]

\* C5 witness: the search chose among leaves of different scores.
C5_Witness ==
    /\ JustChosen /\ check_pivots(prev) = "none"
    /\ LET scored == ScoredBoards(Leaves(prev))
       IN  \E i, j \in 1..Len(scored) :
              scored[i][1] < scored[j][1] /\ scored[i][2] # scored[j][2]

\* the labels of the leaves that attain the maximal score
BestLabels(scored) ==
    {scored[i][2] : i \in {k \in 1..Len(scored) :
                              \A j \in 1..Len(scored) : scored[j][1] <= scored[k][1]}}

\* C6: among the leaves of maximal score next_move returns the label of the
\* one generated first: down if a down-labelled leaf attains the maximum,
\* else left if a left-labelled leaf does, else right.
C6_TieBreak ==
    (JustChosen /\ check_pivots(prev) = "none") =>
        LET scored == ScoredBoards(Leaves(prev))
            best == BestLabels(scored)
            first == CHOOSE k \in 1..Len(scored) :
                        /\ \A j \in 1..Len(scored) : scored[j][1] <= scored[k][1]
                        /\ \A j \in 1..(k - 1) : scored[j][1] < scored[k][1]
        IN  /\ chosen = scored[first][2]
            /\ chosen = (IF "down" \in best THEN "down"
                         ELSE IF "left" \in best THEN "left" ELSE "right")

\* C6 witness: leaves of two first-ply branches share the maximal score, on
\* a board with tiles.
C6_Witness ==
    /\ JustChosen /\ check_pivots(prev) = "none"
    /\ prev # EmptyBoard
    /\ ~Stuck(prev)
    /\ Cardinality(BestLabels(ScoredBoards(Leaves(prev)))) >= 2

\* the order in which game.py:195-208 generates the children
Order == <<"down", "left", "right">>

\* C7: the leaves are the 27 boards d3(d2(d1(board))), in generation order,
\* none pruned, each labelled with d1.
C7_Leaves ==
    (JustChosen /\ check_pivots(prev) = "none") =>
        LET leaves == Leaves(prev)
        IN  /\ Len(leaves) = 27
            /\ \A i1, i2, i3 \in 1..3 :
                  leaves[9 * (i1 - 1) + 3 * (i2 - 1) + i3] =
                      <<Apply(Order[i3], Apply(Order[i2], Apply(Order[i1], prev))), Order[i1]>>
            /\ \A i \in 1..Len(leaves) : leaves[i][2] \in Dirs

\* C7 witness: the search ran on a board one direction leaves unchanged and
\* another changes, so that no-op and duplicate leaves are there to prune.
C7_Witness ==
    /\ JustChosen /\ check_pivots(prev) = "none"
    /\ \E d \in Dirs : Apply(d, prev) = prev
    /\ \E d \in Dirs : Apply(d, prev) # prev
    /\ LET leaves == Leaves(prev)
       IN  \E i, j \in 1..Len(leaves) : i < j /\ leaves[i] = leaves[j]

\* C8: next_move returns down, left, right or undo, never up, and undo only
\* when check_pivots returned undo.
C8_MoveRange ==
    JustChosen =>
        /\ chosen \in {"down", "left", "right", "undo"}
        /\ chosen # "up"
        /\ (chosen = "undo" => check_pivots(prev) = "undo")

\* C8 witness: the search ran on a full board no direction changes, and
\* returned a direction.
C8_Witness ==
    /\ JustChosen
    /\ check_pivots(prev) = "none"
    /\ Stuck(prev)
    /\ \A r \in 1..rows, c \in 1..cols : prev[r][c] # 1
    /\ chosen \in Dirs

RECURSIVE CountIn(_, _, _)
\* the number of cells of value v in seq, from index i on
CountIn(seq, v, i) ==
    IF i > Len(seq) THEN 0
    ELSE (IF seq[i] = v THEN 1 ELSE 0) + CountIn(seq, v, i + 1)

\* the number of tiles of value v on the board b
Tiles(b, v) == CountIn(Flatten(b), v, 1)

\* the number of occupied cells of b
Occupied(b) == Len(Flatten(b)) - Tiles(b, 1)

\* C9: left, right and down take a well-formed board to a well-formed board.
C9_WellFormed == WellFormed(prev) => WellFormed(board)

\* C9 witness: a transform has merged tiles of a well-formed board.
C9_Witness ==
    /\ op \in Dirs
    /\ WellFormed(prev)
    /\ Occupied(board) < Occupied(prev)

\* the tile values a board of sixteen cells of at most 2^MaxExp can come to hold
TileValues == {Pow(2, e) : e \in 1..(MaxExp + 4)}

\* C10 as stated: the multiset of tiles of the result equals that of the
\* input, or is the input's with two equal tiles replaced by one tile of
\* their sum.
C10_AtMostOneMerge ==
    op \in Dirs =>
        \/ \A v \in TileValues : Tiles(board, v) = Tiles(prev, v)
        \/ \E m \in TileValues :
              /\ Tiles(prev, m) >= 2
              /\ \A v \in TileValues :
                    Tiles(board, v) = Tiles(prev, v) - (IF v = m THEN 2 ELSE 0)
                                                     + (IF v = 2 * m THEN 1 ELSE 0)

RECURSIVE PairsMerged(_, _, _, _)
\* from and to are the cells of two boards.  TRUE when, for every tile value
\* from v up, to has the tiles of from with m(v) pairs of them removed and
\* the m(v / 2) doubles of the pairs of value v / 2 added, m(v / 2) being
\* carry: to holds CountIn(from, v) - 2 * m(v) + m(v / 2) tiles of value v.
PairsMerged(from, to, v, carry) ==
    IF v > Pow(2, MaxExp + 4) THEN carry = 0
    ELSE LET had  == CountIn(from, v, 1)
             has  == CountIn(to, v, 1)
             gone == had + carry - has
         IN  /\ gone >= 0
             /\ gone % 2 = 0
             /\ gone <= had
             /\ PairsMerged(from, to, 2 * v, gone \div 2)

\* C10 amended: the multiset of tiles of the result is that of the input
\* with k >= 0 disjoint pairs of equal input tiles each replaced by one tile
\* of their sum (at most two pairs per line), and has k tiles fewer.
C10_Conservation ==
    op \in Dirs =>
        /\ PairsMerged(Flatten(prev), Flatten(board), 2, 0)
        /\ \A r \in 1..rows, c \in 1..cols : board[r][c] \in TileValues \cup {1}
        /\ LET k == Occupied(prev) - Occupied(board)
           IN  k >= 0 /\ k <= 2 * rows

\* C10 witness: one transform has merged two pairs of tiles.
C10_Witness ==
    /\ op \in Dirs
    /\ Occupied(prev) - Occupied(board) >= 2

\* the lines of b along the axis of d, each listed from the edge the tiles
\* move to inward: rows for left, rows reversed for right, columns read
\* from the bottom for down
LinesOf(b, d) ==
    CASE d = "left"  -> b
      [] d = "right" -> <<Reverse(b[1]), Reverse(b[2]), Reverse(b[3]), Reverse(b[4])>>
      [] d = "down"  -> <<Reverse(Line(b, 1, 1)), Reverse(Line(b, 2, 1)),
                          Reverse(Line(b, 3, 1)), Reverse(Line(b, 4, 1))>>

RECURSIVE MergePairs(_)
\* tiles packed from the target edge inward: each adjacent equal pair,
\* nearest the edge first, becomes one tile of double value
MergePairs(t) ==
    IF Len(t) < 2 THEN t
    ELSE IF t[1] = t[2] THEN <<2 * t[1]>> \o MergePairs(SubSeq(t, 3, Len(t)))
    ELSE <<t[1]>> \o MergePairs(Tail(t))

\* the reference reduction of one line listed from the target edge inward
Reduced(line) ==
    LET packed == SelectSeq(line, LAMBDA x : x # 1)
        merged == MergePairs(packed)
    IN  merged \o [i \in 1..(Len(line) - Len(merged)) |-> 1]

\* C11: each of left, right, down gives, line by line, the reference
\* reduction: pack against the target edge, merge adjacent equal pairs from
\* that edge inward, pack again, pad with sentinels.
C11_Reference ==
    op \in Dirs =>
        \A n \in 1..4 : LinesOf(board, op)[n] = Reduced(LinesOf(prev, op)[n])

\* C11 witness: right was called on a board with the row [2,2,2,1] and gave
\* [1,1,2,4], the pair nearest the right edge merged.
C11_Witness ==
    /\ op = "right"
    /\ \E r \in 1..rows : prev[r] = <<2, 2, 2, 1>> /\ board[r] = <<1, 1, 2, 4>>

\* C12: no chain merges: in every line the tiles of the result are those of
\* the input with disjoint pairs of equal input tiles each replaced by their
\* double; [2,2,2,2] and [4,2,2,1] moved left both give [4,4,1,1].
C12_NoChain ==
    /\ op \in Dirs =>
          \A n \in 1..4 : PairsMerged(LinesOf(prev, op)[n], LinesOf(board, op)[n], 2, 0)
    /\ op = "left" =>
          \A r \in 1..rows :
             /\ prev[r] = <<2, 2, 2, 2>> => board[r] = <<4, 4, 1, 1>>
             /\ prev[r] = <<4, 2, 2, 1>> => board[r] = <<4, 4, 1, 1>>

\* C12 witness: left was called on a board with the row [4,2,2,1], where a
\* chain merge would give [8,1,1,1].
C12_Witness ==
    /\ op = "left"
    /\ \E r \in 1..rows : prev[r] = <<4, 2, 2, 1>> /\ board[r] = <<4, 4, 1, 1>>

\* nothing can slide or merge in a line listed from the target edge inward
Settled(line) ==
    /\ ~ \E i, j \in 1..Len(line) : i < j /\ line[i] = 1 /\ line[j] # 1
    /\ ~ \E i \in 1..(Len(line) - 1) : line[i] # 1 /\ line[i] = line[i + 1]

\* C13: d(board) equals board exactly when no line along d's axis has a
\* sentinel between a tile and the target edge or two adjacent equal tiles.
C13_NoOp ==
    op \in Dirs => ((board = prev) <=> \A n \in 1..4 : Settled(LinesOf(prev, op)[n]))

\* C13 witness: a transform left a board with tiles unchanged while another
\* direction would change it.
C13_Witness ==
    /\ op \in Dirs
    /\ board = prev
    /\ Occupied(prev) > 0
    /\ \E d \in Dirs : Apply(d, prev) # prev

\* the snake traversal as positions <<row, column>> counted from 1: bottom
\* row right to left, the row above left to right, and so on upward
Snake ==
    << <<4, 4>>, <<4, 3>>, <<4, 2>>, <<4, 1>>,
       <<3, 1>>, <<3, 2>>, <<3, 3>>, <<3, 4>>,
       <<2, 4>>, <<2, 3>>, <<2, 2>>, <<2, 1>>,
       <<1, 1>>, <<1, 2>>, <<1, 3>>, <<1, 4>> >>

Dist(a, c) == IF a >= c THEN a - c ELSE c - a

\* consecutive positions are grid-adjacent and every cell is visited once
SnakeIsPath ==
    /\ \A k \in 1..15 :
          Dist(Snake[k][1], Snake[k + 1][1]) + Dist(Snake[k][2], Snake[k + 1][2]) = 1
    /\ {Snake[k] : k \in 1..16} = Pos
    /\ Snake[1] = <<rows, cols>>

SnakeValue(b, k) == b[Snake[k][1]][Snake[k][2]]

\* length of the longest initial non-increasing run of the traversal
RunLength(b) ==
    CHOOSE n \in 1..16 :
       /\ \A k \in 1..(n - 1) : SnakeValue(b, k + 1) <= SnakeValue(b, k)
       /\ n < 16 => SnakeValue(b, n + 1) > SnakeValue(b, n)

RECURSIVE RefSum(_, _, _, _)
\* sum over the traversal cells k..n of v*v (base 4) or 3^log2(v) (base 3)
RefSum(b, base, k, n) ==
    IF k > n THEN 0
    ELSE (IF base = 4 THEN SnakeValue(b, k) * SnakeValue(b, k)
                      ELSE Pow(3, Log2(SnakeValue(b, k))))
         + RefSum(b, base, k + 1, n)

RefScore(b) == RefSum(b, 4, 1, RunLength(b)) + RefSum(b, 3, 1, 16)

\* C15: on every well-formed board find_longest_path returns the longest
\* initial non-increasing run of the snake traversal and score is the sum of
\* 4^log2(v) over that run plus the sum of 3^log2(v) over all 16 cells.
C15_Score ==
    WellFormed(board) =>
        /\ SnakeIsPath
        /\ find_longest_path(board) = [k \in 1..RunLength(board) |-> SnakeValue(board, k)]
        /\ score(board) = RefScore(board)

\* C15 witness: a board whose run stops inside the second traversed row, so
\* that the left-to-right reading of that row matters, and has tiles outside
\* the run.
C15_Witness ==
    /\ WellFormed(board)
    /\ RunLength(board) \in 5..7
    /\ \E k \in (RunLength(board) + 1)..16 : SnakeValue(board, k) > 1
    /\ score(board) = RefScore(board)

FixtureBoard ==
    << <<2, 2, 2, 1>>, <<4, 16, 2, 2>>, <<8, 64, 32, 8>>, <<32, 128, 512, 16384>> >>

\* C16: on the fixture board find_longest_path returns [16384,512,128,32,8],
\* the next traversal value 64 exceeding 8, and score returns
\* 268715072 + 4806214 = 273521286.
C16_Fixture ==
    board = FixtureBoard =>
        /\ find_longest_path(board) = <<16384, 512, 128, 32, 8>>
        /\ Len(find_longest_path(board)) = 5
        /\ SnakeValue(board, 6) = 64
        /\ SumPow(4, find_longest_path(board), 1) = 268715072
        /\ SumPow(3, Flatten(board), 1) = 4806214
        /\ score(board) = 273521286

\* C16 witness: the fixture board is the board of the state and scored.
C16_Witness == board = FixtureBoard /\ score(board) = 268715072 + 4806214

\* the n-th largest cell value of b, found by counting
Rank(b, n) ==
    CHOOSE v \in {b[p[1]][p[2]] : p \in Pos} :
       /\ Cardinality({p \in Pos : b[p[1]][p[2]] > v}) < n
       /\ Cardinality({p \in Pos : b[p[1]][p[2]] >= v}) >= n

\* the expected value E_k of the k-th row from the bottom, k in 0..3
Expected(b, k) == Rank(b, 4 * k + 1)

\* the k-th row from the bottom, its boundary column and its corrective move
RowFromBottom(b, k) == b[4 - k]
BoundaryCol(k) == IF k % 2 = 0 THEN 4 ELSE 1
Toward(k) == IF k % 2 = 0 THEN "right" ELSE "left"

\* the boundary cell of row k does not hold E_k while the tile of the
\* previous rank sits at the same edge of the row below (or k is 0)
Misplaced(b, k) ==
    /\ RowFromBottom(b, k)[BoundaryCol(k)] # Expected(b, k)
    /\ k = 0 \/ RowFromBottom(b, k - 1)[BoundaryCol(k)] = Rank(b, 4 * k)

\* the occupied columns of row k, and the one nearest its boundary
TileCols(b, k) == {c \in 1..4 : RowFromBottom(b, k)[c] # 1}
NearestCol(b, k) ==
    CHOOSE c \in TileCols(b, k) :
       \A d \in TileCols(b, k) : IF k % 2 = 0 THEN d <= c ELSE d >= c

\* what row k decides once reached: nothing ("fall") when it is not
\* misplaced or holds no tile, else a move or undo by its nearest tile
RowVerdict(b, k) ==
    IF ~ Misplaced(b, k) \/ TileCols(b, k) = {} THEN "fall"
    ELSE IF RowFromBottom(b, k)[NearestCol(b, k)] = Expected(b, k) THEN Toward(k)
    ELSE "undo"

\* the scan gets to row k with every lower row above the threshold and undecided
Reaches(b, k) ==
    \A j \in 0..(k - 1) : Expected(b, j) > 64 /\ RowVerdict(b, j) = "fall"

MaxTile(b) == Rank(b, 1)

\* C17: check_pivots returns none as soon as it reaches a row whose expected
\* value, the (4k+1)-th largest cell, is <= 64; so on a board whose largest
\* tile is <= 64 check_pivots is none and next_move does not choose undo.
C17_Threshold ==
    /\ \A k \in 0..3 :
          (Reaches(board, k) /\ Expected(board, k) <= 64) => check_pivots(board) = "none"
    /\ MaxTile(board) <= 64 => check_pivots(board) = "none"
    /\ (op = "next_board" /\ MaxTile(prev) <= 64) =>
          (check_pivots(prev) = "none" /\ chosen # "undo")

\* C17 witness: next_board was called on a board whose largest tile is 64
\* and sits in the bottom row away from the corner.
C17_Witness ==
    /\ op = "next_board"
    /\ MaxTile(prev) = 64
    /\ \E c \in 1..3 : prev[4][c] = 64
    /\ prev[4][4] # 64
    /\ chosen \in Dirs

\* C17 witness: the threshold stops the scan at the second row from the
\* bottom, the bottom row holding a tile above 64 in its corner.
C17_WitnessUpper ==
    /\ Expected(board, 0) > 64
    /\ Reaches(board, 1)
    /\ Expected(board, 1) <= 64
    /\ \E c \in 1..4 : board[3][c] # 1 /\ board[3][1] # Expected(board, 1)

\* C18: at the first misplaced row the scan reaches, check_pivots returns
\* right (rows 3, 1) or left (rows 2, 0) if any cell of the row holds the
\* expected value, and undo otherwise.
C18_AnyCell ==
    \A k \in 0..3 :
       (Reaches(board, k) /\ Expected(board, k) > 64 /\ Misplaced(board, k)) =>
           check_pivots(board) =
               IF \E c \in 1..4 : RowFromBottom(board, k)[c] = Expected(board, k)
               THEN Toward(k) ELSE "undo"

(***************************************************************************)
(* The entry points on malformed boards.  A call ends by returning or by   *)
(* raising; an outcome records which, and the value returned.              *)
(***************************************************************************)
\* the largest row length of the small malformed boards
MaxRagged == 2

Ok(v) == [err |-> "none", val |-> v, pressed |-> <<>>]
Raise(e) == [err |-> e, val |-> <<>>, pressed |-> <<>>]

\* empty, with an empty row, or with rows of unequal length
Malformed(b) ==
    \/ b = <<>>
    \/ \E r \in 1..Len(b) : b[r] = <<>> \/ Len(b[r]) # Len(b[1])

\* game.py:16-34: board[0] of game.py:18 raises on the empty list; the test
\* of game.py:28 reads board_copy[idx][cols-1] first, beyond a shorter row
TryRight(b) ==
    IF b = <<>> THEN Raise("IndexError")
    ELSE IF Len(b[1]) >= 2 /\ \E r \in 1..Len(b) : Len(b[r]) < Len(b[1])
         THEN Raise("IndexError")
         ELSE Ok(right(b))

\* game.py:37-54: board[0] of game.py:39; the test of game.py:48 reads the
\* cells i and i+1 for i up to cols-2, beyond a shorter row
TryLeft(b) ==
    IF b = <<>> THEN Raise("IndexError")
    ELSE IF Len(b[1]) >= 2 /\ \E r \in 1..Len(b) : Len(b[r]) < Len(b[1])
         THEN Raise("IndexError")
         ELSE Ok(left(b))

\* game.py:61-115: the checks of game.py:72-81 raise ValueError
TryDown(b) ==
    IF b = <<>> \/ b[1] = <<>> THEN Raise("ValueError")
    ELSE IF \E r \in 1..Len(b) : Len(b[r]) # Len(b[1]) THEN Raise("ValueError")
    ELSE Ok(down(b))

TryApply(d, b) ==
    CASE d = "down"  -> TryDown(b)
      [] d = "left"  -> TryLeft(b)
      [] d = "right" -> TryRight(b)

RECURSIVE TryScanLeft(_, _, _)
\* game.py:167-173 on a row that may be shorter than cols
TryScanLeft(row, i, expected) ==
    IF i > cols - 1 THEN "fall"
    ELSE IF i + 1 > Len(row) THEN "IndexError"
    ELSE IF row[i + 1] = 1 THEN TryScanLeft(row, i + 1, expected)
    ELSE IF row[i + 1] = expected THEN "left" ELSE "undo"

\* b has the cell of Python indices r, c
HasCell(b, r, c) == r + 1 <= Len(b) /\ c + 1 <= Len(b[r + 1])

RECURSIVE TryPivotRows(_, _, _)
\* game.py:154-174 with the subscripts that raise IndexError, in the order
\* Python evaluates them; the result is a move, "none" or "IndexError"
TryPivotRows(b, board_list, row) ==
    IF row < 0 THEN "none"
    ELSE
      LET bl_idx == (rows - row - 1) * cols
          expected == board_list[bl_idx + 1]
          isEven == (rows - row - 1) % 2 = 0
          edge == IF isEven THEN cols - 1 ELSE 0
      IN  IF bl_idx >= Len(board_list) THEN "IndexError"
          ELSE IF expected <= PivotThreshold THEN "none"
          ELSE IF ~ HasCell(b, row, edge) THEN "IndexError"
          ELSE IF expected = b[row + 1][edge + 1]
               THEN TryPivotRows(b, board_list, row - 1)
          ELSE IF bl_idx # 0 /\ ~ HasCell(b, row + 1, edge) THEN "IndexError"
          ELSE IF bl_idx # 0 /\ b[row + 2][edge + 1] # board_list[bl_idx]
               THEN TryPivotRows(b, board_list, row - 1)
          ELSE LET r == IF isEven THEN ScanRight(b[row + 1], cols - 1, expected)
                                  ELSE TryScanLeft(b[row + 1], 0, expected)
               IN  IF r # "fall" THEN r
                   ELSE TryPivotRows(b, board_list, row - 1)

\* game.py:147-174
TryCheckPivots(b) == TryPivotRows(b, SortDesc(Flatten(b)), rows - 1)

\* game.py:177-227: check_pivots, then the first down of game.py:196, which
\* raises on a malformed board
TryNextMove(b) ==
    LET p == TryCheckPivots(b)
    IN  IF p = "IndexError" THEN Raise("IndexError")
        ELSE IF p # "none" THEN Ok(p)
        ELSE IF Malformed(b) THEN Raise("ValueError")
        ELSE Ok(next_move(b))

RECURSIVE TryLoop(_, _, _)
\* game.py:269-284: the while loop, ended by a changed board or a raise
TryLoop(b, m, up) ==
    IF b # up THEN [err |-> "none", val |-> up, pressed |-> press_key(m)]
    ELSE LET o == TryApply(NextInRotation(m), b)
         IN  IF o.err # "none" THEN o ELSE TryLoop(b, NextInRotation(m), o.val)

\* game.py:254-284
TryNextBoard(b) ==
    LET m == TryNextMove(b)
    IN  IF m.err # "none" THEN m
        ELSE IF m.val = "undo"
             THEN [err |-> "none", val |-> ResetBoard(b), pressed |-> press_key("undo")]
        ELSE LET o == TryApply(m.val, b)
             IN  IF o.err # "none" THEN o ELSE TryLoop(b, m.val, o.val)

\* lists of at most MaxRagged cells
SmallRows == UNION {[1..n -> {1, 2}] : n \in 0..MaxRagged}

\* the empty board and the malformed boards of one or two small rows
SmallBoards ==
    {<<>>} \cup {b \in {<<r>> : r \in SmallRows} \cup (SmallRows \X SmallRows) : Malformed(b)}

\* a board of a game with one row cut short, lengthened or emptied
DropLast(b, r) == [b EXCEPT ![r] = SubSeq(b[r], 1, Len(b[r]) - 1)]
Extend(b, r) == [b EXCEPT ![r] = Append(b[r], 2)]
EmptyRow(b, r) == [b EXCEPT ![r] = <<>>]

RaggedBoards ==
    {DropLast(b, r) : b \in BaseBoards, r \in 1..rows}
        \cup {Extend(b, r) : b \in BaseBoards, r \in 1..rows}
        \cup {EmptyRow(b, r) : b \in BaseBoards, r \in 1..rows}

MalformedBoards == SmallBoards \cup RaggedBoards

InitM ==
    /\ board \in MalformedBoards
    /\ prev = board
    /\ op = "init"
    /\ pc = "idle"
    /\ NoCall
    /\ NoObjects

\* a call of a transform d on the malformed board
CallOnMalformed(d) ==
    /\ Malformed(board)
    /\ raised = "none"
    /\ \E o \in {TryApply(d, board)} :
          /\ raised' = o.err
          /\ board' = IF o.err = "none" THEN o.val ELSE board
    /\ prev' = board
    /\ op' = d
    /\ UNCHANGED <<pc, chosen, move, upcoming_board, tried, keys, iter>>
    /\ UNCHANGED objects
    /\ UNCHANGED perception

RightOnMalformed == CallOnMalformed("right")
LeftOnMalformed == CallOnMalformed("left")
DownOnMalformed == CallOnMalformed("down")

\* a call of next_move on the malformed board
NextMoveOnMalformed ==
    /\ Malformed(board)
    /\ raised = "none"
    /\ \E o \in {TryNextMove(board)} :
          /\ raised' = o.err
          /\ chosen' = IF o.err = "none" THEN o.val ELSE "none"
    /\ prev' = board
    /\ op' = "next_move"
    /\ UNCHANGED <<board, pc, move, upcoming_board, tried, keys, iter>>
    /\ UNCHANGED objects
    /\ UNCHANGED perception

\* a call of next_board on the malformed board, to its return or raise
NextBoardOnMalformed ==
    /\ Malformed(board)
    /\ raised = "none"
    /\ \E o \in {TryNextBoard(board)} :
          /\ raised' = o.err
          /\ board' = IF o.err = "none" THEN o.val ELSE board
          /\ keys' = o.pressed
    /\ prev' = board
    /\ op' = "next_board"
    /\ UNCHANGED <<pc, chosen, move, upcoming_board, tried, iter>>
    /\ UNCHANGED objects
    /\ UNCHANGED perception

NextM ==
    \/ RightOnMalformed
    \/ LeftOnMalformed
    \/ DownOnMalformed
    \/ NextMoveOnMalformed
    \/ NextBoardOnMalformed

MalformedSpec == InitM /\ [][NextM]_vars

\* C19: every entry point called on a malformed board ends by signalling an
\* error: it never returns a board or a move.
C19_FailFast == (op # "init" /\ Malformed(prev)) => raised # "none"

(***************************************************************************)
(* The perception step main (main.py:55-229) and the driver loop           *)
(* (main.py:241-251).  The screen capture, the template folder and the     *)
(* similarity scores are inputs: what was captured, which templates the    *)
(* folder holds, and for each cell the template that matches it best       *)
(* above the threshold, if any.                                            *)
(***************************************************************************)
\* the iterations of the driver loop that are followed (1000 in main.py:246)
MaxIter == 2

\* None, the result for a cell without a match (image_similarity.py:173, 187, 214)
NoMatch == 0

\* the value written for such a cell (main.py:225)
Unmatched == 0 - 1

\* main.py:17-31
is_board_filled_with_ones(b) == \A p \in Pos : b[p[1]][p[2]] = 1

\* the values named by the files of a folder holding every tile's template,
\* of a folder with one image that names no power of two, of an empty folder
Templates == {Pow(2, e) : e \in 0..14}
Folders == {Templates, {3}, {}}

\* main.py:34-52 without the test of main.py:48
get_all_filenames(folder_images) == folder_images

\* main.py:34-52, on the values the file names stand for
get_all_power_of_two_filenames(folder_images) ==
    {v \in folder_images : v # 0 /\ IsPow2(v)}

\* main.py:137-145
target_filenames(new_board, folder_images) ==
    IF is_board_filled_with_ones(new_board)
    THEN get_all_power_of_two_filenames(folder_images)
    ELSE {1, 2, 4}

\* image_similarity.py:99-233, sequential branch: for each reference cell
\* the best template among the targets present in the folder, or None
find_similar_images_for_references(cells, folder_images, targets, best) ==
    LET processed_folder_images == folder_images \cap targets
    IN  [p \in cells |->
            IF processed_folder_images = {} THEN NoMatch
            ELSE IF best[p] \in processed_folder_images THEN best[p]
            ELSE NoMatch]

\* main.py:55-229.  captured: capture_cell_images returned the 16 cell
\* images; broken: the cells whose image fails the preprocessing of
\* main.py:171-189; best: the template each cell resembles above threshold.
main(new_board, captured, folder_images, broken, best) ==
    LET cell_indices == {p \in Pos : new_board[p[1]][p[2]] = 1}
        valid_cell_indices == cell_indices \ broken
        similar == find_similar_images_for_references(
                       valid_cell_indices, folder_images,
                       target_filenames(new_board, folder_images), best)
    IN  IF ~ captured THEN new_board
        ELSE IF folder_images = {} THEN new_board
        ELSE IF /\ is_board_filled_with_ones(new_board)
                /\ get_all_power_of_two_filenames(folder_images) = {}
             THEN new_board
        ELSE IF cell_indices = {} THEN new_board
        ELSE IF valid_cell_indices = {} THEN new_board
        ELSE [r \in 1..rows |-> [c \in 1..cols |->
                 IF <<r, c>> \in valid_cell_indices
                 THEN IF similar[<<r, c>>] # NoMatch
                      THEN similar[<<r, c>>] ELSE Unmatched
                 ELSE new_board[r][c]]]

(***************************************************************************)
(* One call of main with its lists: cell_indices and valid_cell_indices in *)
(* the order main.py:153-163 builds them, the list of results in the order *)
(* find_similar_images_for_references appends them.                        *)
(***************************************************************************)
\* the cells in the order of the loops of main.py:153-154
ReadingOrder == [k \in 1..(rows * cols) |-> <<((k - 1) \div cols) + 1, ((k - 1) % cols) + 1>>]

\* the cells of every position, whatever they hold
CellIndicesAll(new_board) == ReadingOrder

\* main.py:150-163: cell_indices
CellIndices(new_board) ==
    SelectSeq(ReadingOrder, LAMBDA p : new_board[p[1]][p[2]] = 1)

\* main.py:194-199: valid_cell_indices
ValidCellIndices(cell_list, broken) == SelectSeq(cell_list, LAMBDA p : p \notin broken)

\* image_similarity.py:176-214: compare_reference_to_targets for the image
\* of cell p
CompareReferenceToTargets(p, processed_folder_images, best) ==
    IF best[p] \in processed_folder_images THEN best[p] ELSE NoMatch

\* the lists made of t with v put in at one place
Inserts(v, t) ==
    {SubSeq(t, 1, i) \o <<v>> \o SubSeq(t, i + 1, Len(t)) : i \in 0..Len(t)}

RECURSIVE as_completed(_)
\* image_similarity.py:221-223: the lists the loop over as_completed(futures)
\* can build from the results of the futures, results[i] that of the i-th
\* submitted: the futures are yielded as they finish, in any order
as_completed(results) ==
    IF Len(results) = 0 THEN {<<>>}
    ELSE UNION {Inserts(Head(results), t) : t \in as_completed(Tail(results))}

\* image_similarity.py:216-224: the lists the parallel branch can return
ParallelIds(reference_cells, processed_folder_images, best) ==
    as_completed([i \in 1..Len(reference_cells) |->
        CompareReferenceToTargets(reference_cells[i], processed_folder_images, best)])

\* image_similarity.py:225-230
SequentialIds(reference_cells, processed_folder_images, best) ==
    [i \in 1..Len(reference_cells) |->
        CompareReferenceToTargets(reference_cells[i], processed_folder_images, best)]

\* image_similarity.py:99-233: the lists the call can return
FindSimilarList(reference_cells, folder_images, targets, best, use_parallel) ==
    LET processed_folder_images == folder_images \cap targets
    IN  IF processed_folder_images = {} THEN {[i \in 1..Len(reference_cells) |-> NoMatch]}
        ELSE IF use_parallel
             THEN ParallelIds(reference_cells, processed_folder_images, best)
             ELSE {SequentialIds(reference_cells, processed_folder_images, best)}

RECURSIVE WriteIds(_, _, _, _)
\* main.py:218-226: for idx, match_value in enumerate(similar_image_ids)
WriteIds(new_board, valid, ids, idx) ==
    IF idx > Len(ids) THEN new_board
    ELSE WriteIds(Put(new_board, valid[idx],
                      IF ids[idx] # NoMatch THEN ids[idx] ELSE Unmatched),
                  valid, ids, idx + 1)

\* what a call leaves: the board returned and the two lists of its last part
Left(b, valid, ids) == [board |-> b, valid |-> valid, ids |-> ids]

\* main.py:55-229 with the inputs e: captured, folder_images, broken, best
\* and use_parallel; what the call can leave
MainCall(new_board, e) ==
    LET cell_list == CellIndices(new_board)
        valid == ValidCellIndices(cell_list, e.broken)
    IN  IF ~ e.captured THEN {Left(new_board, <<>>, <<>>)}
        ELSE IF e.folder_images = {} THEN {Left(new_board, <<>>, <<>>)}
        ELSE IF /\ is_board_filled_with_ones(new_board)
                /\ get_all_power_of_two_filenames(e.folder_images) = {}
             THEN {Left(new_board, <<>>, <<>>)}
        ELSE IF Len(cell_list) = 0 THEN {Left(new_board, <<>>, <<>>)}
        ELSE IF Len(valid) = 0 THEN {Left(new_board, <<>>, <<>>)}
        ELSE {Left(WriteIds(new_board, valid, ids, 1), valid, ids) :
                 ids \in FindSimilarList(valid, e.folder_images,
                                         target_filenames(new_board, e.folder_images),
                                         e.best, e.use_parallel)}

\* the inputs of one call of main
Env(captured, folder_images, broken, best, use_parallel) ==
    [captured |-> captured, folder_images |-> folder_images, broken |-> broken,
     best |-> best, use_parallel |-> use_parallel]

\* game.py:135-144 under next_move: check_pivots returns None, the search
\* scores its leaves, and math.log2 raises ValueError on a cell <= 0.  The
\* transforms keep such a cell (they double it at most), so every leaf has one.
NextMoveRaises(b) ==
    /\ check_pivots(b) = "none"
    /\ \E p \in Pos : b[p[1]][p[2]] <= 0

\* the screens of a game that has just begun: a 2 and a 4
OpeningScreens ==
    {Put(Put(EmptyBoard, p, 2), <<4, 4>>, 4) : p \in {<<1, 1>>, <<2, 3>>, <<4, 3>>}}

\* the screens a game can show when it is first read
StartScreens == BaseBoards \cup OpeningScreens

\* the first and the last empty cell of b in reading order
Index(p) == (p[1] - 1) * cols + p[2]
SpawnCells(b) ==
    LET empty == {p \in Pos : b[p[1]][p[2]] = 1}
    IN  {p \in empty : \A q \in empty : Index(p) <= Index(q)}
          \cup {p \in empty : \A q \in empty : Index(p) >= Index(q)}

\* what the screen can show when main is called with new_board: any start
\* screen when the board is all ones, else the board with at most one new
\* tile, a 2 or a 4, in an empty cell
Screens(new_board) ==
    IF is_board_filled_with_ones(new_board) THEN StartScreens
    ELSE {new_board} \cup {Put(new_board, p, v) : p \in SpawnCells(new_board), v \in {2, 4}}

\* the best template per cell for a screen, none for the cell miss
BestOf(screen, miss) ==
    [p \in Pos |-> IF p = miss THEN NoMatch ELSE screen[p[1]][p[2]]]

\* what the screen shows when the driver calls main: after the undo key the
\* game is back at an earlier position, which the board passed in does not
\* tell
DriverScreens ==
    IF chosen = "undo" THEN StartScreens ELSE Screens(board)

InitD ==
    /\ board = EmptyBoard
    /\ prev = board
    /\ op = "init"
    /\ pc = "idle"
    /\ NoCall
    /\ NoObjects

\* the driver is about to call main (main.py:247)
AtMain == pc = "idle" /\ raised = "none" /\ op \in {"init", "next_board"} /\ iter < MaxIter

\* main.py:247-250: board = main(new_board=board) with the inputs e and the
\* result b
MainReturns(b, e) ==
    /\ board' = b
    /\ \E m \in MainCall(board, e) :
          /\ refs' = m.valid
          /\ returned_ids' = m.ids
          /\ matched' = m.ids
    /\ env' = e
    /\ prev' = board
    /\ op' = "main"
    /\ iter' = iter + 1
    /\ UNCHANGED <<pc, chosen, move, upcoming_board, tried, keys, raised>>
    /\ UNCHANGED objects

\* main with everything captured and loaded; at most one cell has no match
MainRecognises ==
    /\ AtMain
    /\ \E screen \in DriverScreens, miss \in Pos \cup {<<0, 0>>} :
          MainReturns(main(board, TRUE, Templates, {}, BestOf(screen, miss)),
                      Env(TRUE, Templates, {}, BestOf(screen, miss), FALSE))

\* main when the capture fails, the folder is empty or holds no power of
\* two, or every image fails preprocessing
MainFails ==
    /\ AtMain
    /\ \E captured \in BOOLEAN, folder_images \in Folders, broken \in {{}, Pos} :
          /\ ~ captured \/ folder_images # Templates \/ broken = Pos
          /\ \E screen \in DriverScreens :
                MainReturns(main(board, captured, folder_images, broken,
                                 BestOf(screen, <<0, 0>>)),
                            Env(captured, folder_images, broken,
                                BestOf(screen, <<0, 0>>), FALSE))

\* main.py:251: board = next_board(board), up to the loop of game.py:269
DriverNextBoard ==
    /\ op = "main"
    /\ raised = "none"
    /\ ~ NextMoveRaises(board)
    /\ NextBoardEnter

\* main.py:251: next_board(board) ends with the ValueError of math.log2
DriverRaises ==
    /\ op = "main"
    /\ pc = "idle"
    /\ raised = "none"
    /\ NextMoveRaises(board)
    /\ raised' = "ValueError"
    /\ prev' = board
    /\ op' = "next_board"
    /\ UNCHANGED <<board, pc, chosen, move, upcoming_board, tried, keys, iter>>
    /\ UNCHANGED objects
    /\ UNCHANGED perception

NextD ==
    \/ MainRecognises
    \/ MainFails
    \/ DriverNextBoard
    \/ DriverRaises
    \/ LoopRotate
    \/ LoopExit

DriverSpec == InitD /\ [][NextD]_vars

\* C20: every board the driver hands to next_board, the result of main, is
\* 4x4 with every cell 1 or a power of two >= 2.
C20_BoardHandedOver == (op = "main" /\ pc = "idle") => WellFormed(board)

(***************************************************************************)
(* The operations on list objects.  A board is a list of references to row *)
(* lists; heap[i] is the content of the object with identity i.  Every     *)
(* operation takes the heap and the identity of its argument and gives the *)
(* heap it leaves, the identity r of the list it returns (0 when it        *)
(* returns no list) and the other value v it returns.                      *)
(***************************************************************************)
Result(h, r, v) == [h |-> h, r |-> r, v |-> v]

\* a new list object
Alloc(h, content) == Result(Append(h, content), Len(h) + 1, 0)

\* the board value held by the list b
Value(h, b) == [i \in 1..Len(h[b]) |-> h[h[b][i]]]

RECURSIVE AllocRows(_, _, _, _)
\* new row objects for the rows of a board value, from row i on; v collects
\* their identities
AllocRows(h, value, i, ids) ==
    IF i > Len(value) THEN Result(h, 0, ids)
    ELSE AllocRows(Append(h, value[i]), value, i + 1, Append(ids, Len(h) + 1))

\* a new board object with new rows, holding the given value
AllocBoard(h, value) ==
    LET rs == AllocRows(h, value, 1, <<>>)
    IN  Alloc(rs.h, rs.v)

\* copy.copy(board): a new outer list sharing the row objects
DeepCopyShallow(h, b) == Alloc(h, h[b])

\* copy.deepcopy(board)  (game.py:19, 40, 83, 118, 150)
DeepCopy(h, b) == AllocBoard(h, Value(h, b))

RECURSIVE RebindRows(_, _, _, _)
\* board_copy[idx] = <a new list holding value[idx]>, from idx on
RebindRows(h, board_copy, value, idx) ==
    IF idx > Len(value) THEN h
    ELSE RebindRows([Append(h, value[idx]) EXCEPT ![board_copy][idx] = Len(h) + 1],
                    board_copy, value, idx + 1)

\* game.py:16-34: the rows of board_copy are replaced by new lists
\* (game.py:23), which the merge then writes or replaces (game.py:29-33)
ObjRight(h, b) ==
    LET c == DeepCopy(h, b)
    IN  Result(RebindRows(c.h, c.r, right(Value(c.h, c.r)), 1), c.r, 0)

\* game.py:37-54
ObjLeft(h, b) ==
    LET c == DeepCopy(h, b)
    IN  Result(RebindRows(c.h, c.r, left(Value(c.h, c.r)), 1), c.r, 0)

\* game.py:61-115: board_copy is read, down_board is built new and returned
ObjDown(h, b) ==
    LET c == DeepCopy(h, b)
    IN  AllocBoard(c.h, down(Value(c.h, c.r)))

\* game.py:117-132: the rows 0 and 2 of board_copy are reversed in place;
\* longest_seq is a new list
ObjFindLongestPath(h, b) ==
    LET c == DeepCopy(h, b)
        r0 == c.h[c.r][1]
        r2 == c.h[c.r][3]
        h1 == [c.h EXCEPT ![r0] = Reverse(c.h[r0])]
        h2 == [h1 EXCEPT ![r2] = Reverse(h1[r2])]
        board_list == Reverse(Flatten(Value(h2, c.r)))
    IN  Alloc(h2, LongestWhile(board_list, 0, board_list[1], <<>>))

\* game.py:135-144: the float returned is v
ObjScore(h, b) ==
    LET f == ObjFindLongestPath(h, b)
    IN  Result(f.h, 0, SumPow(4, f.h[f.r], 1) + SumPow(3, Flatten(Value(f.h, b)), 1))

\* game.py:147-174: board_copy is only read
ObjCheckPivots(h, b) ==
    LET c == DeepCopy(h, b)
    IN  Result(c.h, 0, PivotRows(Value(c.h, c.r), SortDesc(Flatten(Value(c.h, b))), rows - 1))

\* the element of a one-element set; Only({F(x) : x \in {e}}) is F of the
\* value of e, computed once
Only(S) == CHOOSE x \in S : TRUE

ObjApply(d, h, b) ==
    CASE d = "down"  -> ObjDown(h, b)
      [] d = "left"  -> ObjLeft(h, b)
      [] d = "right" -> ObjRight(h, b)

\* game.py:195-208: the three children of one (b, move) pair, b a list
ObjChildren(h, pair) ==
    Only({Only({Only({
        Result(r.h, 0, << <<d.r, ChildLabel(pair[2], "down")>>,
                          <<l.r, ChildLabel(pair[2], "left")>>,
                          <<r.r, ChildLabel(pair[2], "right")>> >>)
        : r \in {ObjRight(l.h, pair[1])}})
        : l \in {ObjLeft(d.h, pair[1])}})
        : d \in {ObjDown(h, pair[1])}})

RECURSIVE ObjExpandFrom(_, _, _, _)
\* game.py:193-208
ObjExpandFrom(h, current_boards, i, next_boards) ==
    IF i > Len(current_boards) THEN Result(h, 0, next_boards)
    ELSE Only({ObjExpandFrom(c.h, current_boards, i + 1, next_boards \o c.v)
                 : c \in {ObjChildren(h, current_boards[i])}})

RECURSIVE ObjExpandLevels(_, _, _)
\* game.py:191-209
ObjExpandLevels(h, possible_boards, n) ==
    IF n = 0 THEN Result(h, 0, possible_boards)
    ELSE Only({ObjExpandLevels(e.h, e.v, n - 1)
                 : e \in {ObjExpandFrom(h, possible_boards, 1, <<>>)}})

RECURSIVE ObjScoredFrom(_, _, _, _)
\* game.py:211-222
ObjScoredFrom(h, possible_boards, i, scored_boards) ==
    IF i > Len(possible_boards) THEN Result(h, 0, scored_boards)
    ELSE Only({ObjScoredFrom(sc.h, possible_boards, i + 1,
                             Append(scored_boards, <<sc.v, possible_boards[i][2]>>))
                 : sc \in {ObjScore(h, possible_boards[i][1])}})

\* game.py:188-227: the search on the heap the pivot check left
ObjSearch(h, b) ==
    Only({Only({
        Result(sc.h, 0, LET scored_boards == SortByScore(sc.v)
                        IN  IF Len(scored_boards) = 0 THEN "undo"
                            ELSE scored_boards[1][2])
        : sc \in {ObjScoredFrom(e.h, e.v, 1, <<>>)}})
        : e \in {ObjExpandLevels(h, << <<b, "none">> >>, lookahead)}})

\* game.py:177-227: the move returned is v
ObjNextMove(h, b) ==
    Only({IF p.v # "none" THEN p ELSE ObjSearch(p.h, b)
            : p \in {ObjCheckPivots(h, b)}})

RECURSIVE ObjLoop(_, _, _, _)
\* game.py:269-284: the lists are compared by value; v is the key pressed
ObjLoop(h, b, m, up) ==
    IF Value(h, b) # Value(h, up) THEN Result(h, up, press_key(m))
    ELSE Only({ObjLoop(o.h, b, NextInRotation(m), o.r)
                 : o \in {ObjApply(NextInRotation(m), h, b)}})

\* game.py:254-284; v is the key pressed
ObjNextBoard(h, b) ==
    Only({IF m.v = "undo"
          THEN Only({Result(a.h, a.r, press_key(m.v))
                       : a \in {AllocBoard(m.h, ResetBoard(Value(m.h, b)))}})
          ELSE Only({ObjLoop(o.h, b, m.v, o.r) : o \in {ObjApply(m.v, m.h, b)}})
            : m \in {ObjNextMove(h, b)}})

ObjCall(f, h, b) ==
    CASE f = "right" -> ObjRight(h, b)
      [] f = "left" -> ObjLeft(h, b)
      [] f = "down" -> ObjDown(h, b)
      [] f = "find_longest_path" -> ObjFindLongestPath(h, b)
      [] f = "score" -> ObjScore(h, b)
      [] f = "check_pivots" -> ObjCheckPivots(h, b)
      [] f = "next_move" -> ObjNextMove(h, b)
      [] f = "next_board" -> ObjNextBoard(h, b)

\* the operations that return a board
BoardOps == {"right", "left", "down", "next_board"}

\* the caller's boards: boards of a game that some direction changes
HeapBoards ==
    {b \in BaseBoards \cup {Put(Put(EmptyBoard, p, 2), q, v) :
                              p \in {<<4, 4>>, <<2, 3>>}, q \in Pos, v \in {2, 4}} :
        ~ \A d \in Dirs : FirstBoard(d, b) = b}

InitH ==
    /\ board \in HeapBoards
    /\ prev = board
    /\ op = "init"
    /\ pc = "idle"
    /\ NoCall
    /\ heap = AllocBoard(<<>>, board).h
    /\ arg = Len(heap)
    /\ ret = 0

\* the caller calls f on its board object
CallOnObject(f) ==
    /\ op = "init"
    /\ \E o \in {ObjCall(f, heap, arg)} :
          /\ heap' = o.h
          /\ ret' = o.r
          /\ board' = IF f \in BoardOps THEN Value(o.h, o.r) ELSE board
          /\ chosen' = IF f = "next_move" THEN o.v ELSE chosen
          /\ keys' = IF f = "next_board" THEN keys \o o.v ELSE keys
    /\ prev' = board
    /\ op' = f
    /\ UNCHANGED <<pc, move, upcoming_board, tried, raised, iter, arg>>
    /\ UNCHANGED perception

NextH ==
    \/ CallOnObject("right")
    \/ CallOnObject("left")
    \/ CallOnObject("down")
    \/ CallOnObject("find_longest_path")
    \/ CallOnObject("score")
    \/ CallOnObject("check_pivots")
    \/ CallOnObject("next_move")
    \/ CallOnObject("next_board")

HeapSpec == InitH /\ [][NextH]_vars

\* the identities of the row objects of the list b
RowsAt(h, b) == {h[b][i] : i \in 1..Len(h[b])}

\* C14: after a call of any operation the caller's board object and its row
\* objects hold what they held before the call, and a returned board is a
\* new object that shares no row object with the argument.
C14_Frame ==
    op # "init" =>
        /\ Value(heap, arg) = prev
        /\ op \in BoardOps =>
              /\ ret \notin {0, arg}
              /\ RowsAt(heap, ret) \cap (RowsAt(heap, arg) \cup {arg}) = {}
              /\ Value(heap, ret) = board

\* C14 witness: find_longest_path has reversed a row in place, in a copy:
\* the heap holds the reversed row while the caller's row is as it was.
C14_Witness ==
    /\ op = "find_longest_path"
    /\ prev[1] # Reverse(prev[1])
    /\ \E i \in 1..Len(heap) : heap[i] = Reverse(prev[1]) /\ i \notin RowsAt(heap, arg)
    /\ Value(heap, arg) = prev

\* C14 witness: next_board has returned a board that differs from the
\* caller's, whose object is unchanged.
C14_WitnessNextBoard ==
    /\ op = "next_board"
    /\ Value(heap, ret) # prev
    /\ Value(heap, arg) = prev

\* C21: a call of next_board that returns has pressed exactly one key: u
\* exactly when it returned the reset board through undo, otherwise the
\* arrow key of the direction whose transform of the input is the returned
\* board; the key up is never pressed.
C21_OneKey ==
    Returned =>
        /\ Len(keys) = 1
        /\ keys[1] # "up"
        /\ (keys[1] = "u") <=> (chosen = "undo" /\ board = EmptyBoard)
        /\ keys[1] # "u" => (keys[1] \in Dirs /\ board = Apply(keys[1], prev))

\* C21 witness: a call returned after the rotation replaced the direction
\* next_move chose, and the key pressed is that of the direction applied.
C21_Witness ==
    /\ Returned
    /\ chosen \in Dirs
    /\ keys # <<chosen>>
    /\ Len(keys) = 1
    /\ board = Apply(keys[1], prev)
    /\ board # Apply(chosen, prev)

\* the boards main is called with: all ones, and boards of a game
PerceptionBoards == {EmptyBoard} \cup BaseBoards

\* the sets of cells whose image fails the preprocessing of main.py:171-189
Brokens(new_board) == {{}, Pos} \cup {{p} : p \in SpawnCells(new_board)}

InitP ==
    /\ board \in PerceptionBoards
    /\ prev = board
    /\ op = "init"
    /\ pc = "idle"
    /\ NoCall
    /\ NoObjects

\* board = main(new_board=board, use_parallel=...) with the inputs e
MainWith(e) ==
    /\ \E m \in MainCall(board, e) :
          /\ board' = m.board
          /\ refs' = m.valid
          /\ returned_ids' = m.ids
          /\ matched' = [i \in 1..Len(m.valid) |->
                            CompareReferenceToTargets(m.valid[i],
                                e.folder_images \cap target_filenames(board, e.folder_images),
                                e.best)]
    /\ env' = e
    /\ prev' = board
    /\ op' = "main"
    /\ UNCHANGED <<pc, chosen, move, upcoming_board, tried, keys, raised, iter>>
    /\ UNCHANGED objects

\* main(use_parallel=False) with everything captured and loaded
MainSequential ==
    /\ op = "init"
    /\ \E broken \in Brokens(board), screen \in Screens(board), miss \in Pos \cup {<<0, 0>>} :
           MainWith(Env(TRUE, Templates, broken, BestOf(screen, miss), FALSE))

\* the screens a parallel call is followed on: a screen of an opening when
\* the board is all ones, else any screen the board can be read from
ParallelScreens(new_board) ==
    IF is_board_filled_with_ones(new_board) THEN OpeningScreens ELSE Screens(new_board)

\* main(use_parallel=True): the call returns one of the lists the threads
\* can leave
MainParallel ==
    /\ op = "init"
    /\ \E broken \in Brokens(board), screen \in ParallelScreens(board),
          miss \in SpawnCells(board) \cup {<<0, 0>>} :
           MainWith(Env(TRUE, Templates, broken, BestOf(screen, miss), TRUE))

\* main when the capture fails or the folder is empty or holds no power of two
MainWithoutTemplates ==
    /\ op = "init"
    /\ \E captured \in BOOLEAN, folder_images \in Folders, use_parallel \in BOOLEAN :
           /\ ~ captured \/ folder_images # Templates
           /\ \E screen \in Screens(board) :
                 MainWith(Env(captured, folder_images, {}, BestOf(screen, <<0, 0>>),
                              use_parallel))

NextP ==
    \/ MainSequential
    \/ MainParallel
    \/ MainWithoutTemplates

PerceptionSpec == InitP /\ [][NextP]_vars

\* the values main can write into a cell of new_board: a template it
\* compares against, or -1
Writable(new_board, folder_images) ==
    (folder_images \cap target_filenames(new_board, folder_images)) \cup {Unmatched}

\* C22: a call of main changes only cells that held 1 on entry; every cell
\* it processed holds a recognised value or -1 afterwards, and every other
\* cell keeps its value.
C22_OnlySentinels ==
    op = "main" =>
        \A p \in Pos :
            /\ prev[p[1]][p[2]] # 1 => board[p[1]][p[2]] = prev[p[1]][p[2]]
            /\ board[p[1]][p[2]] # prev[p[1]][p[2]] =>
                  board[p[1]][p[2]] \in Writable(prev, env.folder_images)
            /\ (\E i \in 1..Len(refs) : refs[i] = p) =>
                  board[p[1]][p[2]] \in Writable(prev, env.folder_images)
            /\ ~ (\E i \in 1..Len(refs) : refs[i] = p) =>
                  board[p[1]][p[2]] = prev[p[1]][p[2]]

\* a call on a board with tiles that wrote a tile, wrote a -1 and left a
\* sentinel cell alone
C22_Witness ==
    /\ op = "main"
    /\ \E p \in Pos : prev[p[1]][p[2]] > 1 /\ board[p[1]][p[2]] = prev[p[1]][p[2]]
    /\ \E p \in Pos : prev[p[1]][p[2]] = 1 /\ board[p[1]][p[2]] = Unmatched
    /\ \E p \in Pos : prev[p[1]][p[2]] = 1 /\ board[p[1]][p[2]] = 1
    /\ \E p \in Pos : prev[p[1]][p[2]] = 1 /\ board[p[1]][p[2]] > 1

\* what main writes into the cell of a result (main.py:220-225)
Written(match_value) == IF match_value # NoMatch THEN match_value ELSE Unmatched

\* C23: in both modes and for every completion order of the workers, the
\* i-th element of the list find_similar_images_for_references returns is
\* the result of the i-th reference image, so main writes each result into
\* the cell the image was cropped from.
C23_ResultsInOrder ==
    op = "main" =>
        \A i \in 1..Len(returned_ids) :
            /\ returned_ids[i] = matched[i]
            /\ board[refs[i][1]][refs[i][2]] = Written(matched[i])

\* the inputs e send a call of main with new_board down one of its early
\* exits (main.py:114-116, 133-135, 137-142, 165-167, 201-203)
EarlyExit(new_board, e) ==
    \/ ~ e.captured
    \/ e.folder_images = {}
    \/ (\A p \in Pos : new_board[p[1]][p[2]] = 1) /\ e.folder_images \cap Templates = {}
    \/ \A p \in Pos : new_board[p[1]][p[2]] # 1
    \/ \A p \in Pos : new_board[p[1]][p[2]] = 1 => p \in e.broken

\* C24: on each early-exit path of main (nothing captured, no folder image,
\* no power-of-two template in initialization mode, no cell marked 1, no
\* image surviving preprocessing) main returns new_board with every cell
\* unchanged.
C24_EarlyExitKeepsBoard ==
    (op = "main" /\ EarlyExit(prev, env)) => board = prev

\* a call on the all-ones board with a folder holding no power of two
C24_Witness ==
    /\ op = "main"
    /\ env.captured
    /\ env.folder_images = {3}
    /\ prev = EmptyBoard
    /\ board = prev

\* a call with sentinel cells none of whose images survives preprocessing
C24_WitnessPreprocessing ==
    /\ op = "main"
    /\ env.captured /\ env.folder_images = Templates
    /\ \E p \in Pos : prev[p[1]][p[2]] = 1
    /\ \A p \in Pos : prev[p[1]][p[2]] = 1 => p \in env.broken
    /\ board = prev

\* a call whose capture failed, on a board with sentinel cells
C24_WitnessCapture ==
    /\ op = "main"
    /\ ~ env.captured
    /\ \E p \in Pos : prev[p[1]][p[2]] = 1
    /\ board = prev

\* the value a re-recognised cell p gets when its image is compared against
\* the templates named by targets
Recognised(p, e, targets) ==
    Written(IF e.best[p] \in e.folder_images \cap targets THEN e.best[p] ELSE NoMatch)

\* the perception call that follows a call of next_board and takes none of
\* its early exits
PerceivedAfter(m) == op = "main" /\ chosen \in m /\ ~ EarlyExit(prev, env)

\* C25: in the driver loop the perception call that follows a next_board
\* call resolved to undo re-recognises all 16 cells against every
\* power-of-two template; after a direction move that leaves an occupied
\* tile it re-recognises only the sentinel cells, against 1, 2 and 4.
C25_ModeAfterMove ==
    /\ PerceivedAfter({"undo"}) =>
          \A p \in Pos : board[p[1]][p[2]] = Recognised(p, env, Templates)
    /\ (PerceivedAfter(Dirs) /\ \E p \in Pos : prev[p[1]][p[2]] # 1) =>
          \A p \in Pos :
              board[p[1]][p[2]] = IF prev[p[1]][p[2]] = 1
                                  THEN Recognised(p, env, {1, 2, 4})
                                  ELSE prev[p[1]][p[2]]

\* after an undo, a screen with a tile above 4 has been read in full
C25_Witness ==
    /\ PerceivedAfter({"undo"})
    /\ \E p \in Pos : board[p[1]][p[2]] > 4

\* after a direction move, the new tile has been read and the others kept
C25_WitnessIntermediate ==
    /\ PerceivedAfter(Dirs)
    /\ \E p \in Pos : prev[p[1]][p[2]] > 4
    /\ \E p \in Pos : prev[p[1]][p[2]] = 1 /\ board[p[1]][p[2]] \in {2, 4}

RECURSIVE SumFrom(_, _)
\* the sum of the cells of seq other than 1, from index i on
SumFrom(seq, i) ==
    IF i > Len(seq) THEN 0
    ELSE (IF seq[i] = 1 THEN 0 ELSE seq[i]) + SumFrom(seq, i + 1)

\* the sum of the occupied tiles of b
TileSum(b) == SumFrom(Flatten(b), 1)

\* C26: each of left, right and down keeps the sum of the occupied tiles of
\* a well-formed board and does not increase the number of occupied cells;
\* every step of every sequence of transforms does.
C26_SumConserved ==
    [][WellFormed(board) =>
          /\ TileSum(board') = TileSum(board)
          /\ Occupied(board') <= Occupied(board)]_vars

\* a second transform in a row has merged tiles that the first had made
C26_Witness ==
    /\ op \in Dirs
    /\ WellFormed(prev)
    /\ Occupied(board) < Occupied(prev)
    /\ TileSum(board) = TileSum(prev)
    /\ \E r \in 1..rows, c \in 1..cols : board[r][c] > Pow(2, MaxExp + 1)

\* the row-wise mirror of b
Mirror(b) == [r \in 1..Len(b) |-> Reverse(b[r])]

\* C27: for every well-formed board, left(board) is the row-wise mirror of
\* right of the row-wise mirror of board, and down(board) is the transpose
\* of right of the transpose of board.
C27_Symmetry ==
    WellFormed(prev) =>
        /\ op = "left" => board = Mirror(right(Mirror(prev)))
        /\ op = "down" => board = Transpose(right(Transpose(prev)))

\* left has merged tiles of a board on which right gives another result
\* than the mirror of left's
C27_Witness ==
    /\ op = "left"
    /\ WellFormed(prev)
    /\ Occupied(board) < Occupied(prev)
    /\ board # Mirror(right(prev))

\* down has merged tiles of a board that its transpose differs from
C27_WitnessDown ==
    /\ op = "down"
    /\ WellFormed(prev)
    /\ Occupied(board) < Occupied(prev)
    /\ prev # Transpose(prev)

\* row k of b is the row at which check_pivots returns the move d: the
\* boundary cell of the row is empty, the tile nearest to it is the expected
\* value, and in the board after the boundary cell holds that value or its
\* double
PivotSlides(b, d, k, after) ==
    /\ Reaches(b, k)
    /\ Expected(b, k) > PivotThreshold
    /\ RowVerdict(b, k) = d
    /\ RowFromBottom(b, k)[BoundaryCol(k)] = 1
    /\ RowFromBottom(b, k)[NearestCol(b, k)] = Expected(b, k)
    /\ RowFromBottom(after, k)[BoundaryCol(k)] \in {Expected(b, k), 2 * Expected(b, k)}

\* C28: whenever check_pivots returns left or right, that transform changes
\* the board: the boundary cell of the row was empty and the nearest tile of
\* the row slides into it, leaving the expected value or its double; so
\* next_board issues exactly the pivot move and its rotation substitutes no
\* other direction.
C28_PivotMoveActs ==
    /\ check_pivots(board) \in {"left", "right"} =>
          /\ Apply(check_pivots(board), board) # board
          /\ \E k \in 0..3 :
                PivotSlides(board, check_pivots(board), k, Apply(check_pivots(board), board))
    /\ (Returned /\ check_pivots(prev) \in {"left", "right"}) =>
          /\ chosen = check_pivots(prev)
          /\ move = chosen
          /\ tried = {chosen}
          /\ keys = <<chosen>>
          /\ board = Apply(chosen, prev)
          /\ board # prev
          /\ \E k \in 0..3 : PivotSlides(prev, chosen, k, board)

\* next_board has issued the pivot move right, which slid the largest tile
\* into the bottom right corner
C28_Witness ==
    /\ Returned
    /\ check_pivots(prev) = "right"
    /\ keys = <<"right">>
    /\ PivotSlides(prev, "right", 0, board)

\* next_board has issued the pivot move left for the second row from the bottom
C28_WitnessLeft ==
    /\ Returned
    /\ check_pivots(prev) = "left"
    /\ keys = <<"left">>
    /\ PivotSlides(prev, "left", 1, board)

\* the pivot move has merged the expected tile with its neighbour
C28_WitnessDouble ==
    /\ Returned
    /\ check_pivots(prev) \in {"left", "right"}
    /\ \E k \in 0..3 :
          /\ PivotSlides(prev, chosen, k, board)
          /\ RowFromBottom(board, k)[BoundaryCol(k)] = 2 * Expected(prev, k)

\* the snake traversal of b is non-increasing over all 16 cells
Arranged(b) == \A k \in 1..15 : SnakeValue(b, k + 1) <= SnakeValue(b, k)

\* C29: on every well-formed board whose snake traversal, as used by
\* find_longest_path, is non-increasing over all 16 cells, check_pivots
\* returns none; a perfectly arranged board never gets left, right or undo
\* from the pivot heuristic.
C29_ArrangedNoPivot ==
    /\ (WellFormed(board) /\ Arranged(board)) =>
          /\ check_pivots(board) = "none"
          /\ Len(find_longest_path(board)) = rows * cols
    /\ (op = "next_board" /\ WellFormed(prev) /\ Arranged(prev)) =>
          (check_pivots(prev) = "none" /\ chosen # "undo")

\* next_board was called on an arranged board whose three lower rows all
\* expect a tile above the threshold
C29_Witness ==
    /\ op = "next_board"
    /\ Arranged(prev)
    /\ \A k \in 0..2 : Expected(prev, k) > PivotThreshold
    /\ Reaches(prev, 3)
    /\ chosen \in Dirs

\* an arranged board with equal tiles next to each other across two rows
C29_WitnessTies ==
    /\ op = "next_board"
    /\ Arranged(prev)
    /\ SnakeValue(prev, 4) = SnakeValue(prev, 5)
    /\ Expected(prev, 1) > PivotThreshold

\* C30: when check_pivots returns none and at least one of down, left and
\* right changes the board, the direction next_move returns changes the
\* board, so the move next_board issues is the one next_move chose.
C30_ChoiceActs ==
    (/\ op = "next_board"
     /\ check_pivots(prev) = "none"
     /\ \E d \in Dirs : Apply(d, prev) # prev) =>
        /\ chosen \in Dirs
        /\ Apply(chosen, prev) # prev
        /\ Returned => keys = <<chosen>>
====
